---- MODULE Spec2Model ----
(***************************************************************************)
(* Breakout (src/game.js): the per-frame simulation (movePaddle, moveBall), *)
(* the level / life state machine (startGame, nextLevel, loseLife), the     *)
(* input handlers and the requestAnimationFrame loop.                       *)
(*                                                                         *)
(* Numbers.  JavaScript numbers are modelled in fixed point: a length or a  *)
(* velocity component is an integer count of 1/SCALE pixel.  Comparisons,   *)
(* sums and clamps are then exact; the three places where the code uses     *)
(* trigonometry or a square root (initLevel, the paddle bounce) round to    *)
(* one unit (Sin1000, Cos1000, Hypot below).                                *)
(*                                                                         *)
(* Geometry.  The playing field is scaled down: the canvas is PADDLE_W plus *)
(* FieldSteps paddle steps wide, the floor lies PlayRoom pixels below the   *)
(* last brick row, and the grid has BRICK_ROWS x BRICK_COLS bricks.  Every  *)
(* other constant keeps the value the source gives it.                      *)
(***************************************************************************)
EXTENDS Integers, Sequences, FiniteSets, TLC

\* ------------------------------------------------------------------ bounds
SCALE      == 100      \* fixed-point units per pixel
FieldSteps == 4        \* free room of the paddle, in paddle steps
PlayRoom   == 58       \* pixels from the last brick row to the floor
BRICK_COLS == 1
BRICK_ROWS == 1
MaxBonus   == 1        \* bonus bricks the random draws make in one run
GridCols   == 2        \* columns of the grid of TickSpec
MaxTicks   == 40       \* ticks with the ball in flight, in TickSpec

\* ------------------------------------------------- constants of the source
PADDLE_W     == 80
PADDLE_H     == 12
PADDLE_SPEED == 7
BALL_R       == 7
BASE_SPEED   == 4
BRICK_GAP    == 4
BRICK_TOP    == 60
BRICK_H      == 18
BONUS_POINTS == 20
ROW_POINTS   == <<7, 5, 4, 3, 2, 1>>

W        == PADDLE_W + FieldSteps * PADDLE_SPEED
\* canvas.height (480 x 520 in the page): the brick rows, then PlayRoom
H        == BRICK_TOP + BRICK_ROWS * (BRICK_H + BRICK_GAP) + PlayRoom
PADDLE_Y == H - 36
\* the width of a brick in a grid of cols columns, in units
brickW(cols) == ((W - (cols + 1) * BRICK_GAP) * SCALE) \div cols
BRICK_W  == brickW(BRICK_COLS)

\* a pixel count in fixed-point units
Px(n) == n * SCALE

\* ------------------------------------------------------- inputs (bounded)
\* keys the model presses; e.key of keydown / keyup
KeyNames   == {"ArrowLeft", "ArrowRight", " "}
\* the entries of keys that movePaddle reads; only these are kept in the model
MoveKeys   == {"ArrowLeft", "a", "A", "ArrowRight", "d", "D"}
\* pointer positions relative to the canvas (mx, tx), in units
PointerXs  == {Px(0), Px(W)}
\* Math.random() in initLevel: the launch angle in degrees, [30, 90)
InitAngles == {45}
\* Math.random() < 0.5 ? 1 : -1
Signs      == {1, -1}
NBricks    == BRICK_ROWS * BRICK_COLS
\* Math.random() < BONUS_CHANCE, one draw per brick
BonusDraws == [1..NBricks -> BOOLEAN]

\* ------------------------------------------------------------- arithmetic
Abs(v) == IF v < 0 THEN -v ELSE v
Max(a, b) == IF a >= b THEN a ELSE b
Min(a, b) == IF a <= b THEN a ELSE b

\* integer quotient rounded toward zero
Quot(n, d) == IF n >= 0 THEN n \div d ELSE -((-n) \div d)

\* mutant of clamp: the lower bound is not applied
clamp_NoLowerBound(v, lo, hi) == Min(hi, v)

clamp(v, lo, hi) == Max(lo, Min(hi, v))

\* 1000 * sin(d / 10 degrees), d in tenths of a degree, |d| <= 1800
\* (Bhaskara's rational approximation, exact at 0, 30, 90, 150, 180 degrees)
Sin1000(d) ==
  LET a == Abs(d)
      p == a * (1800 - a)
      s == (400 * p) \div ((4050000 - p) \div 10)
  IN IF d < 0 THEN -s ELSE s

\* 1000 * cos(d / 10 degrees), |d| <= 2700
Cos1000(d) == Sin1000(900 - Abs(d))

\* Math.hypot on integers, rounded down
Hypot(a, b) ==
  LET n == a * a + b * b
  IN CHOOSE r \in 0..(Abs(a) + Abs(b)) : r * r <= n /\ (r + 1) * (r + 1) > n

\* ------------------------------------------------------------------ state
VARIABLES
  state,      \* 'idle' | 'playing' | 'win' | 'gameover'
  score, lives, level,
  animId,     \* id returned by the last requestAnimationFrame, 0 for null
  paddle,     \* [x, y, w, h]
  ball,       \* [x, y, r, vx, vy, stuck]
  bricks,     \* sequence of [x, y, w, h, hp, maxHp, row, col, alive, bonus]
  keys,       \* the set of e.key with keys[e.key] = true
  overlay,    \* overlay.classList contains 'visible'
  raf,        \* callbacks waiting in requestAnimationFrame, oldest first
  running,    \* callbacks of the rendering frame in progress, still to run
  bonusMade,  \* history: bonus bricks made since the run began
  frameTicks, \* history: simulation ticks run by the current / last frame
  lastOp,     \* history: the overlay branch or frame callback that ran last
  ticks       \* history: ticks of TickSpec that moved the ball (0 under Spec)

vars == <<state, score, lives, level, animId, paddle, ball, bricks, keys,
          overlay, raf, running, bonusMade, frameTicks, lastOp, ticks>>

\* the mutable globals of the script, as one record
Game ==
  [state |-> state, score |-> score, lives |-> lives, level |-> level,
   animId |-> animId, paddle |-> paddle, ball |-> ball, bricks |-> bricks,
   overlay |-> overlay, raf |-> raf]

\* ----------------------------------------------------------- brick factory
\* the two nested loops of makeBricks, for a grid of rows x cols
makeGrid(rows, cols, lvl, bonus) ==
  [i \in 1..(rows * cols) |->
     LET r == (i - 1) \div cols
         c == (i - 1) % cols
         maxHp == IF lvl >= 3 /\ r < 2 THEN 2 ELSE 1
     IN [x |-> Px(BRICK_GAP) + c * (brickW(cols) + Px(BRICK_GAP)),
         y |-> Px(BRICK_TOP) + r * Px(BRICK_H + BRICK_GAP),
         w |-> brickW(cols), h |-> Px(BRICK_H),
         hp |-> maxHp, maxHp |-> maxHp, row |-> r, col |-> c,
         alive |-> TRUE, bonus |-> bonus[i]]]

makeBricks(lvl, bonus) == makeGrid(BRICK_ROWS, BRICK_COLS, lvl, bonus)

\* ------------------------------------------------------------ init / reset
\* mutant of initLevel: the paddle is created at the left wall
initLevel_PaddleLeft(g, rnd) ==
  LET sp == (Px(BASE_SPEED) * (100 + (g.level - 1) * 12)) \div 100
  IN [g EXCEPT
        !.paddle = [x |-> 0,
                    y |-> Px(PADDLE_Y), w |-> Px(PADDLE_W), h |-> Px(PADDLE_H)],
        !.ball   = [x |-> Px(W) \div 2,
                    y |-> Px(PADDLE_Y - BALL_R - 2),
                    r |-> Px(BALL_R),
                    vx |-> Quot(sp * Cos1000(rnd.angle * 10), 1000) * rnd.dir,
                    vy |-> -Quot(sp * Sin1000(rnd.angle * 10), 1000),
                    stuck |-> TRUE],
        !.bricks = makeBricks(g.level, rnd.bonus)]

\* rnd: the Math.random() draws, [angle, dir, bonus]
initLevel(g, rnd) ==
  LET sp == (Px(BASE_SPEED) * (100 + (g.level - 1) * 12)) \div 100
  IN [g EXCEPT
        !.paddle = [x |-> Px(W) \div 2 - Px(PADDLE_W) \div 2,
                    y |-> Px(PADDLE_Y), w |-> Px(PADDLE_W), h |-> Px(PADDLE_H)],
        !.ball   = [x |-> Px(W) \div 2,
                    y |-> Px(PADDLE_Y - BALL_R - 2),
                    r |-> Px(BALL_R),
                    vx |-> Quot(sp * Cos1000(rnd.angle * 10), 1000) * rnd.dir,
                    vy |-> -Quot(sp * Sin1000(rnd.angle * 10), 1000),
                    stuck |-> TRUE],
        !.bricks = makeBricks(g.level, rnd.bonus)]

\* requestAnimationFrame(loop): a fresh id, queued for the next frame
requestAnimationFrame(g) ==
  LET id == CHOOSE n \in 1..(Len(g.raf) + 1) :
              \A k \in 1..Len(g.raf) : g.raf[k] # n
  IN [g EXCEPT !.raf = Append(g.raf, id), !.animId = id]

\* cancelAnimationFrame(id): no effect when id is not waiting
cancelAnimationFrame(g, id) ==
  [g EXCEPT !.raf = SelectSeq(g.raf, LAMBDA n : n # id)]

\* mutant of loseLife: the game ends one life late (lives < 0)
loseLife_OffByOne(g, dir) ==
  LET g1 == [g EXCEPT !.lives = g.lives - 1]
  IN IF g1.lives < 0
     THEN [g1 EXCEPT !.state = "gameover", !.overlay = TRUE]
     ELSE [g1 EXCEPT
             !.ball = [x |-> Px(W) \div 2,
                       y |-> Px(PADDLE_Y - BALL_R - 2),
                       r |-> Px(BALL_R),
                       vx |-> Px(BASE_SPEED) * dir,
                       vy |-> -Px(BASE_SPEED),
                       stuck |-> TRUE],
             !.paddle.x = Px(W) \div 2 - Px(PADDLE_W) \div 2]

loseLife(g, dir) ==
  LET g1 == [g EXCEPT !.lives = g.lives - 1]
  IN IF g1.lives <= 0
     THEN [g1 EXCEPT !.state = "gameover", !.overlay = TRUE]
     ELSE [g1 EXCEPT
             !.ball = [x |-> Px(W) \div 2,
                       y |-> Px(PADDLE_Y - BALL_R - 2),
                       r |-> Px(BALL_R),
                       vx |-> Px(BASE_SPEED) * dir,
                       vy |-> -Px(BASE_SPEED),
                       stuck |-> TRUE],
             !.paddle.x = Px(W) \div 2 - Px(PADDLE_W) \div 2]

\* ---------------------------------------------------------------- physics
movePaddle(g, held) ==
  LET x1 == IF "ArrowLeft" \in held \/ "a" \in held \/ "A" \in held
            THEN g.paddle.x - Px(PADDLE_SPEED) ELSE g.paddle.x
      x2 == IF "ArrowRight" \in held \/ "d" \in held \/ "D" \in held
            THEN x1 + Px(PADDLE_SPEED) ELSE x1
      x3 == clamp(x2, 0, Px(W) - g.paddle.w)
  IN [g EXCEPT !.paddle.x = x3,
               !.ball.x = IF g.ball.stuck THEN x3 + g.paddle.w \div 2
                          ELSE g.ball.x]

launchBall(g) ==
  IF ~g.ball.stuck THEN g ELSE [g EXCEPT !.ball.stuck = FALSE]

\* mutant of wallStep: the side walls take the other velocity component
wallStep_OtherComponent(b) ==
  LET b1 == [b EXCEPT !.x = b.x + b.vx, !.y = b.y + b.vy]
      b2 == IF b1.x - b1.r < 0
            THEN [b1 EXCEPT !.x = b1.r, !.vx = Abs(b1.vy)]
            ELSE IF b1.x + b1.r > Px(W)
            THEN [b1 EXCEPT !.x = Px(W) - b1.r, !.vx = -Abs(b1.vy)]
            ELSE b1
  IN IF b2.y - b2.r < 0
     THEN [b2 EXCEPT !.y = b2.r, !.vy = Abs(b2.vy)]
     ELSE b2

\* the ball after its position is advanced and the walls are applied
wallStep(b) ==
  LET b1 == [b EXCEPT !.x = b.x + b.vx, !.y = b.y + b.vy]
      b2 == IF b1.x - b1.r < 0
            THEN [b1 EXCEPT !.x = b1.r, !.vx = Abs(b1.vx)]
            ELSE IF b1.x + b1.r > Px(W)
            THEN [b1 EXCEPT !.x = Px(W) - b1.r, !.vx = -Abs(b1.vx)]
            ELSE b1
  IN IF b2.y - b2.r < 0
     THEN [b2 EXCEPT !.y = b2.r, !.vy = Abs(b2.vy)]
     ELSE b2

\* mutant of fellBelow: the leading (bottom) edge is tested
fellBelow_LeadingEdge(b) == b.y + b.r > Px(H)

\* "Fell below paddle"
fellBelow(b) == b.y - b.r > Px(H)

paddleHit(b, p) ==
  /\ b.vy > 0
  /\ b.y + b.r >= p.y
  /\ b.y + b.r <= p.y + p.h
  /\ b.x >= p.x - b.r
  /\ b.x <= p.x + p.w + b.r

\* mutant of paddleBounce: the ball is not put back above the paddle
paddleBounce_NoReposition(b, p) ==
  LET half == p.w \div 2
      ang  == Quot(700 * (b.x - (p.x + half)), half)
      sp   == Hypot(b.vx, b.vy)
  IN [b EXCEPT !.vy = -Abs(Quot(sp * Cos1000(ang), 1000)),
               !.vx = Quot(sp * Sin1000(ang), 1000)]

\* the ball after a paddle hit; ang in tenths of a degree
paddleBounce(b, p) ==
  LET half == p.w \div 2
      ang  == Quot(700 * (b.x - (p.x + half)), half)
      sp   == Hypot(b.vx, b.vy)
  IN [b EXCEPT !.vy = -Abs(Quot(sp * Cos1000(ang), 1000)),
               !.vx = Quot(sp * Sin1000(ang), 1000),
               !.y  = p.y - b.r - Px(1)]

\* dx, dy from the closest point of brick k to the ball centre
brickDx(b, k) == b.x - clamp(b.x, k.x, k.x + k.w)
brickDy(b, k) == b.y - clamp(b.y, k.y, k.y + k.h)

brickTouch(b, k) ==
  brickDx(b, k) * brickDx(b, k) + brickDy(b, k) * brickDy(b, k) < b.r * b.r

\* mutant of hitIndex: the loop keeps the last brick it meets
hitIndex_Last(b, bs) ==
  LET cand == {i \in 1..Len(bs) : bs[i].alive /\ brickTouch(b, bs[i])}
  IN IF cand = {} THEN 0 ELSE CHOOSE i \in cand : \A j \in cand : i >= j

\* index of the brick the for-loop stops at, 0 when it runs to the end
hitIndex(b, bs) ==
  LET cand == {i \in 1..Len(bs) : bs[i].alive /\ brickTouch(b, bs[i])}
  IN IF cand = {} THEN 0 ELSE CHOOSE i \in cand : \A j \in cand : i <= j

\* mutant of reflect: the chosen component is inverted, whatever its sign
reflect_Inverts(b, k) ==
  LET overlapX == b.r - Abs(brickDx(b, k))
      overlapY == b.r - Abs(brickDy(b, k))
  IN IF overlapX < overlapY
     THEN [b EXCEPT !.vx = -b.vx]
     ELSE [b EXCEPT !.vy = -b.vy]

\* "Reflect ball"
reflect(b, k) ==
  LET dx == brickDx(b, k)
      dy == brickDy(b, k)
      overlapX == b.r - Abs(dx)
      overlapY == b.r - Abs(dy)
  IN IF overlapX < overlapY
     THEN [b EXCEPT !.vx = IF dx < 0 THEN -Abs(b.vx) ELSE Abs(b.vx)]
     ELSE [b EXCEPT !.vy = IF dy < 0 THEN -Abs(b.vy) ELSE Abs(b.vy)]

\* mutant of damage: the brick stays alive at hp 0
damage_KeepsAlive(k) == [k EXCEPT !.hp = k.hp - 1]

\* b.hp--; if (b.hp <= 0) b.alive = false
damage(k) ==
  LET hp1 == k.hp - 1
  IN [k EXCEPT !.hp = hp1, !.alive = IF hp1 <= 0 THEN FALSE ELSE k.alive]

points(k) == ROW_POINTS[k.row + 1] + (IF k.bonus THEN BONUS_POINTS ELSE 0)

\* mutant of brickStep: every hit is paid, not only the destroying one
brickStep_PaysEveryHit(g) ==
  LET i == hitIndex(g.ball, g.bricks)
  IN IF i = 0 THEN g
     ELSE LET k  == g.bricks[i]
          IN [g EXCEPT !.bricks[i] = damage(k),
                       !.score = g.score + points(k),
                       !.ball = reflect(g.ball, k)]

\* the brick loop of moveBall
brickStep(g) ==
  LET i == hitIndex(g.ball, g.bricks)
  IN IF i = 0 THEN g
     ELSE LET k  == g.bricks[i]
              k1 == damage(k)
          IN [g EXCEPT !.bricks[i] = k1,
                       !.score = IF k1.hp <= 0 THEN g.score + points(k)
                                 ELSE g.score,
                       !.ball = reflect(g.ball, k)]

allDead(bs) == \A i \in 1..Len(bs) : ~bs[i].alive

\* mutant of winStep: the win condition is never applied
winStep_Never(g) == g

\* "Win condition"
winStep(g) ==
  IF allDead(g.bricks) THEN [g EXCEPT !.state = "win", !.overlay = TRUE]
  ELSE g

\* mutant of moveBall: a stuck ball is moved like a launched one
moveBall_IgnoresStuck(g, dir) ==
  LET g1 == [g EXCEPT !.ball = wallStep(g.ball)]
  IN IF fellBelow(g1.ball) THEN loseLife(g1, dir)
     ELSE LET g2 == IF paddleHit(g1.ball, g1.paddle)
                    THEN [g1 EXCEPT !.ball = paddleBounce(g1.ball, g1.paddle)]
                    ELSE g1
          IN winStep(brickStep(g2))

moveBall(g, dir) ==
  IF g.ball.stuck THEN g
  ELSE LET g1 == [g EXCEPT !.ball = wallStep(g.ball)]
       IN IF fellBelow(g1.ball) THEN loseLife(g1, dir)
          ELSE LET g2 == IF paddleHit(g1.ball, g1.paddle)
                         THEN [g1 EXCEPT !.ball = paddleBounce(g1.ball, g1.paddle)]
                         ELSE g1
               IN winStep(brickStep(g2))

\* --------------------------------------------------------------- main loop
\* mutant of loop: the tick runs in every state
loop_NoStateCheck(g, held, dir) ==
  requestAnimationFrame(moveBall(movePaddle(g, held), dir))

loop(g, held, dir) ==
  IF g.state # "playing" THEN g
  ELSE requestAnimationFrame(moveBall(movePaddle(g, held), dir))

startGame(g, held, rnd) ==
  LET g1 == initLevel([g EXCEPT !.score = 0, !.lives = 3, !.level = 1], rnd)
      g2 == [g1 EXCEPT !.overlay = FALSE, !.state = "playing"]
      g3 == IF g2.animId # 0 THEN cancelAnimationFrame(g2, g2.animId) ELSE g2
  IN loop(g3, held, rnd.dir)

\* mutant of nextLevel: the score starts again at 0
nextLevel_ResetsScore(g, rnd) ==
  [initLevel([g EXCEPT !.level = g.level + 1, !.score = 0], rnd)
     EXCEPT !.overlay = TRUE, !.state = "idle"]

\* mutant of nextLevel: the state is left at 'playing'
nextLevel_StaysPlaying(g, rnd) ==
  [initLevel([g EXCEPT !.level = g.level + 1], rnd)
     EXCEPT !.overlay = TRUE, !.state = "playing"]

nextLevel(g, rnd) ==
  LET g1 == initLevel([g EXCEPT !.level = g.level + 1], rnd)
  IN [g1 EXCEPT !.overlay = TRUE, !.state = "idle"]

\* ------------------------------------------------------------------- steps
Rnds == [angle : InitAngles, dir : Signs, bonus : BonusDraws]

BonusCount(bonus) == Cardinality({i \in DOMAIN bonus : bonus[i]})

\* the draws of a level made after n bonus bricks of the same run
RndsAfter(n) == {rnd \in Rnds : n + BonusCount(rnd.bonus) <= MaxBonus}

Install(g) ==
  /\ state' = g.state
  /\ score' = g.score
  /\ lives' = g.lives
  /\ level' = g.level
  /\ animId' = g.animId
  /\ paddle' = g.paddle
  /\ ball' = g.ball
  /\ bricks' = g.bricks
  /\ overlay' = g.overlay
  /\ raf' = g.raf

\* the script's top level: the declarations, then initLevel(); showOverlay()
Init ==
  \E rnd \in RndsAfter(0) :
    LET g0 == [state |-> "idle", score |-> 0, lives |-> 3, level |-> 1,
               animId |-> 0, paddle |-> [x |-> 0, y |-> 0, w |-> 0, h |-> 0],
               ball |-> [x |-> 0, y |-> 0, r |-> 0, vx |-> 0, vy |-> 0,
                         stuck |-> TRUE],
               bricks |-> <<>>, overlay |-> FALSE, raf |-> <<>>]
        g  == [initLevel(g0, rnd) EXCEPT !.overlay = TRUE]
    IN /\ state = g.state
       /\ score = g.score
       /\ lives = g.lives
       /\ level = g.level
       /\ animId = g.animId
       /\ paddle = g.paddle
       /\ ball = g.ball
       /\ bricks = g.bricks
       /\ overlay = g.overlay
       /\ raf = g.raf
       /\ keys = {}
       /\ running = <<>>
       /\ bonusMade = BonusCount(rnd.bonus)
       /\ frameTicks = 0
       /\ lastOp = "init" /\ ticks = 0

\* events are dispatched between rendering frames
BetweenFrames == running = <<>>

\* the keydown listener, for e.key = k
keyDown(k) ==
  /\ BetweenFrames
  /\ keys' = keys \cup ({k} \cap MoveKeys)
  /\ Install(IF k = " " /\ state = "playing" THEN launchBall(Game) ELSE Game)
  /\ UNCHANGED <<running, bonusMade, frameTicks, lastOp, ticks>>

KeyDown == \E k \in KeyNames : keyDown(k)

KeyUp ==
  \E k \in KeyNames :
    /\ BetweenFrames
    /\ keys' = keys \ {k}
    /\ UNCHANGED <<state, score, lives, level, animId, paddle, ball, bricks,
                   overlay, raf, running, bonusMade, frameTicks, lastOp, ticks>>

\* mutant of pointerMove: the state is not tested
pointerMove_NoStateCheck(g, px) ==
  LET x1 == clamp(px - g.paddle.w \div 2, 0, Px(W) - g.paddle.w)
  IN [g EXCEPT !.paddle.x = x1,
               !.ball.x = IF g.ball.stuck THEN x1 + g.paddle.w \div 2
                          ELSE g.ball.x]

\* mutant of pointerMove: a stuck ball does not follow the paddle
pointerMove_BallStays(g, px) ==
  IF g.state # "playing" THEN g
  ELSE [g EXCEPT !.paddle.x = clamp(px - g.paddle.w \div 2, 0, Px(W) - g.paddle.w)]

\* the body shared by the mousemove and touchmove listeners
pointerMove(g, px) ==
  IF g.state # "playing" THEN g
  ELSE LET x1 == clamp(px - g.paddle.w \div 2, 0, Px(W) - g.paddle.w)
       IN [g EXCEPT !.paddle.x = x1,
                    !.ball.x = IF g.ball.stuck THEN x1 + g.paddle.w \div 2
                               ELSE g.ball.x]

MouseMove ==
  \E mx \in PointerXs :
    /\ BetweenFrames
    /\ Install(pointerMove(Game, mx))
    /\ UNCHANGED <<keys, running, bonusMade, frameTicks, lastOp, ticks>>

TouchMove ==
  \E tx \in PointerXs :
    /\ BetweenFrames
    /\ Install(pointerMove(Game, tx))
    /\ UNCHANGED <<keys, running, bonusMade, frameTicks, lastOp, ticks>>

CanvasClick ==
  /\ BetweenFrames
  /\ Install(IF state = "playing" THEN launchBall(Game) ELSE Game)
  /\ UNCHANGED <<keys, running, bonusMade, frameTicks, lastOp, ticks>>

TouchStart ==
  /\ BetweenFrames
  /\ Install(IF state = "playing" THEN launchBall(Game) ELSE Game)
  /\ UNCHANGED <<keys, running, bonusMade, frameTicks, lastOp, ticks>>

\* the Math.random() draws a call of loop() consumes: the direction of the
\* new ball, when the tick loses a life
DirDraws(g) ==
  IF g.state = "playing" /\ ~g.ball.stuck /\ fellBelow(wallStep(g.ball))
  THEN Signs ELSE {1}

\* the click listener of the overlay button, branch state === 'idle'
OverlayStart ==
  /\ BetweenFrames
  /\ state = "idle"
  /\ \E dir \in DirDraws([Game EXCEPT !.state = "playing"]) :
       Install(loop([Game EXCEPT !.overlay = FALSE, !.state = "playing"],
                    keys, dir))
  /\ lastOp' = "overlay:idle"
  /\ UNCHANGED <<keys, running, bonusMade, frameTicks, ticks>>

\* branch state === 'win', level < 5
OverlayNextLevel ==
  /\ BetweenFrames
  /\ state = "win"
  /\ level < 5
  /\ \E rnd \in RndsAfter(bonusMade) :
       /\ Install(nextLevel(Game, rnd))
       /\ bonusMade' = bonusMade + BonusCount(rnd.bonus)
  /\ lastOp' = "overlay:win:nextLevel"
  /\ UNCHANGED <<keys, running, frameTicks, ticks>>

\* branch state === 'win', else of level < 5
OverlayPlayAgain ==
  /\ BetweenFrames
  /\ state = "win"
  /\ ~(level < 5)
  /\ \E rnd \in RndsAfter(0) :
       /\ Install(startGame(Game, keys, rnd))
       /\ bonusMade' = BonusCount(rnd.bonus)
  /\ lastOp' = "overlay:win:startGame"
  /\ UNCHANGED <<keys, running, frameTicks, ticks>>

\* the last else branch: "game over or any other state"
OverlayElse ==
  /\ BetweenFrames
  /\ state # "idle"
  /\ state # "win"
  /\ \E rnd \in RndsAfter(0) :
       /\ Install(startGame(Game, keys, rnd))
       /\ bonusMade' = BonusCount(rnd.bonus)
  /\ lastOp' = "overlay:else:startGame"
  /\ UNCHANGED <<keys, running, frameTicks, ticks>>

\* One callback of a rendering frame.  A frame runs the callbacks that were
\* waiting when it began, oldest first; those they request wait for the next.
runCallback ==
  LET fresh == running = <<>>
      batch == IF fresh THEN raf ELSE running
      g0    == IF fresh THEN [Game EXCEPT !.raf = <<>>] ELSE Game
  IN /\ batch # <<>>
     /\ \E dir \in DirDraws(g0) : Install(loop(g0, keys, dir))
     /\ running' = Tail(batch)
     /\ frameTicks' = (IF fresh THEN 0 ELSE frameTicks)
                      + (IF state = "playing" THEN 1 ELSE 0)
     /\ lastOp' = "loop"
     /\ UNCHANGED <<keys, bonusMade>>

Frame == runCallback /\ UNCHANGED ticks

Next ==
  \/ KeyDown
  \/ KeyUp
  \/ MouseMove
  \/ TouchMove
  \/ CanvasClick
  \/ TouchStart
  \/ OverlayStart
  \/ OverlayNextLevel
  \/ OverlayPlayAgain
  \/ OverlayElse
  \/ Frame

Spec == Init /\ [][Next]_vars

\* ------------------------------------------------- play on a wider grid
\* TickSpec: the same listeners and frame callback, started in the middle of
\* a level on a grid of BRICK_ROWS x GridCols bricks, so that the ball meets
\* neighbouring bricks, the gaps between them and the walls behind them.
TickN      == BRICK_ROWS * GridCols
TickLevels == {1, 3}
TickAngles == {45, 60}
TickRnds   ==
  {rnd \in [angle : TickAngles, dir : Signs, bonus : [1..TickN -> BOOLEAN]] :
     BonusCount(rnd.bonus) <= MaxBonus}

\* the grid of the level with the bricks of dead destroyed
tickBricks(lvl, bonus, dead) ==
  LET bs == makeGrid(BRICK_ROWS, GridCols, lvl, bonus)
  IN [i \in 1..TickN |->
        IF i \in dead THEN [bs[i] EXCEPT !.hp = 0, !.alive = FALSE] ELSE bs[i]]

\* the points of the dead bricks among the first n of bs
RECURSIVE deadPoints(_, _)
deadPoints(bs, n) ==
  IF n = 0 THEN 0
  ELSE deadPoints(bs, n - 1) + (IF bs[n].alive THEN 0 ELSE points(bs[n]))

\* A level in play: just started (initLevel, then the overlay button), or,
\* with bricks already destroyed, just after a ball was lost (loseLife).
TickInit ==
  \E lvl \in TickLevels, rnd \in TickRnds, dead \in SUBSET (1..TickN) :
    /\ dead # 1..TickN
    /\ LET bs == tickBricks(lvl, rnd.bonus, dead)
           none == [i \in 1..TickN |-> FALSE]
           g0 == [state |-> "playing",
                  score |-> (lvl - 1) * deadPoints(tickBricks(1, none, 1..TickN), TickN)
                            + deadPoints(bs, TickN),
                  lives |-> 3, level |-> lvl, animId |-> 1,
                  paddle |-> [x |-> 0, y |-> 0, w |-> 0, h |-> 0],
                  ball |-> [x |-> 0, y |-> 0, r |-> 0, vx |-> 0, vy |-> 0,
                            stuck |-> TRUE],
                  bricks |-> <<>>, overlay |-> FALSE, raf |-> <<1>>]
           g1 == [initLevel(g0, rnd) EXCEPT !.bricks = bs]
           g  == IF dead = {} THEN g1 ELSE loseLife(g1, rnd.dir)
       IN /\ state = g.state
          /\ score = g.score
          /\ lives = g.lives
          /\ level = g.level
          /\ animId = g.animId
          /\ paddle = g.paddle
          /\ ball = g.ball
          /\ bricks = g.bricks
          /\ overlay = g.overlay
          /\ raf = g.raf
          /\ keys = {}
          /\ running = <<>>
          /\ bonusMade = BonusCount(rnd.bonus)
          /\ frameTicks = 0
          /\ lastOp = "init" /\ ticks = 0

\* a frame callback of TickSpec; those that move the ball are counted
TickFrame ==
  /\ ticks < MaxTicks
  /\ runCallback
  /\ ticks' = ticks + (IF state = "playing" /\ ~ball.stuck THEN 1 ELSE 0)

TickNext ==
  \/ MouseMove
  \/ CanvasClick
  \/ TickFrame

TickSpec == TickInit /\ [][TickNext]_vars

\* ================================================================ claims
\* any branch of the overlay button's click listener
OverlayClick == OverlayStart \/ OverlayNextLevel \/ OverlayPlayAgain \/ OverlayElse

\* a step that replaces the grid: initLevel, through nextLevel or startGame
GridReplaced == OverlayNextLevel \/ OverlayPlayAgain \/ OverlayElse

\* a grid as makeBricks returns it
FreshGrid(bs) ==
  \A i \in 1..Len(bs) : bs[i].alive /\ bs[i].hp = bs[i].maxHp /\ bs[i].hp > 0

PaddleCentre == Px(W) \div 2 - Px(PADDLE_W) \div 2

\* the ball rests over the middle of the paddle
BallOverPaddle(b, p) == b.stuck /\ b.x = p.x + p.w \div 2

\* the tick about to run moves the ball wholly below the floor
WillFall ==
  state = "playing" /\ ~ball.stuck /\ ball.y + ball.vy - ball.r > Px(H)

\* ---------------------------------------------------------------- C1
\* C1: in every reachable state paddle.x lies in [0, W - paddle.w], whatever
\* keys are held and wherever the pointer moves.
C1_PaddleInField == 0 <= paddle.x /\ paddle.x <= Px(W) - paddle.w

\* a tick with ArrowLeft held has clamped the paddle at the left wall
C1_Witness ==
  state = "playing" /\ lastOp = "loop" /\ "ArrowLeft" \in keys /\ paddle.x = 0

\* ---------------------------------------------------------------- C2
C2_State ==
  \A i \in 1..Len(bricks) :
    bricks[i].hp >= 0 /\ (bricks[i].alive <=> bricks[i].hp > 0)

C2_Step ==
  \/ /\ Len(bricks') = Len(bricks)
     /\ \A i \in 1..Len(bricks) :
          /\ bricks'[i].hp <= bricks[i].hp
          /\ ~bricks[i].alive => ~bricks'[i].alive
  \/ GridReplaced

\* C2: a brick's hp is never negative and never increases, a brick is alive
\* exactly when hp > 0, and a dead brick stays dead until initLevel replaces
\* the grid.
C2_BrickHp == []C2_State /\ [][C2_Step]_vars

\* a brick of two hit points has been hit twice and is dead
C2_Witness ==
  \E i \in 1..Len(bricks) :
    bricks[i].maxHp = 2 /\ bricks[i].hp = 0 /\ ~bricks[i].alive

\* ---------------------------------------------------------------- C3
C3_Step == score' >= score \/ OverlayPlayAgain \/ OverlayElse

\* C3: score is a non-negative integer and, except at startGame, no step
\* decreases it.
C3_ScoreMonotone == [](score \in Nat) /\ [][C3_Step]_vars

\* a score earned in earlier levels has been carried into level 3
C3_Witness == level = 3 /\ state = "playing" /\ score >= 2 * ROW_POINTS[1]

\* ---------------------------------------------------------------- C4
C4_Edge ==
  state' # state =>
    \/ state = "idle" /\ state' = "playing" /\ OverlayClick
    \/ state = "playing" /\ state' = "win" /\ Frame /\ allDead(bricks')
    \/ state = "playing" /\ state' = "gameover" /\ Frame
         /\ lives = 1 /\ lives' = 0
    \/ state = "win" /\ state' = "idle" /\ OverlayClick /\ level < 5
    \/ state = "win" /\ state' = "playing" /\ OverlayClick /\ level = 5
    \/ state = "gameover" /\ state' = "playing" /\ OverlayClick

\* C4: state changes only along idle -> playing, playing -> win,
\* playing -> gameover, win -> idle (level < 5), win -> playing (level = 5)
\* and gameover -> playing; 'paused' and 'dead' are never reached.
C4_StateMachine ==
  /\ [](state \in {"idle", "playing", "win", "gameover"})
  /\ [][C4_Edge]_vars

\* the edge win -> playing has been taken, after level 5 was cleared
C4_Witness == lastOp = "overlay:win:startGame" /\ state = "playing"

\* ---------------------------------------------------------------- C5
\* C5 as claimed: every idle -> playing transition leaves score = 0,
\* lives = 3, level = 1 and a fresh paddle, stuck ball and alive grid.
C5_Original ==
  [][OverlayStart =>
       /\ score' = 0 /\ lives' = 3 /\ level' = 1
       /\ ball'.stuck /\ FreshGrid(bricks')]_vars

C5_Step ==
  OverlayStart =>
    /\ state' = "playing"
    /\ score' = score /\ lives' = lives /\ level' = level
    /\ level = 1 => (score' = 0 /\ lives' = 3)
    /\ bricks' = bricks /\ FreshGrid(bricks')
    /\ BallOverPaddle(ball', paddle')
    /\ ball'.y = ball.y /\ ball'.vx = ball.vx /\ ball'.vy = ball.vy
    /\ paddle'.x - PaddleCentre \in
         {-Px(PADDLE_SPEED), 0, Px(PADDLE_SPEED)}

\* C5 (amended): an idle -> playing transition keeps score, lives and level
\* (0, 3, 1 at the first start only) and keeps the stuck ball and the fully
\* alive grid of the preceding initLevel; its tick moves the paddle by the
\* held keys.
C5_StartKeepsRun == [][C5_Step]_vars

\* the run was continued into a later level with its score
C5_Witness ==
  lastOp = "overlay:idle" /\ state = "playing" /\ level >= 2 /\ score > 0

\* ---------------------------------------------------------------- C6
\* C6 as claimed: a tick that starts with the ball's bottom edge past the
\* floor (as with its centre at H + 1) registers the life loss, and with
\* lives = 1 the game over.
C6_Original ==
  [][(state = "playing" /\ ~ball.stuck /\ ball.y + ball.r > Px(H) /\ Frame)
       => (lives' = lives - 1 /\ (lives = 1 => state' = "gameover"))]_vars

C6_Step ==
  /\ (WillFall /\ Frame) =>
       (lives' = lives - 1 /\ (lives = 1 => state' = "gameover"))
  /\ \/ (lives' = lives /\ state' # "gameover")
     \/ ~(state = "playing" /\ ~ball.stuck /\ ~WillFall /\ Frame)

\* C6 (amended): the life loss is registered by the tick that moves the
\* whole ball past the floor (ball.y - ball.r > H), and by no earlier tick;
\* with lives = 1 that tick leaves lives = 0 and state = gameover.
C6_LifeLostBelowFloor == [][C6_Step]_vars

\* the last life has been lost by a tick
C6_Witness == state = "gameover" /\ lives = 0 /\ lastOp = "loop"

\* ---------------------------------------------------------------- C7
C7_Step ==
  (state = "win" /\ OverlayClick) =>
    IF level < 5
    THEN /\ level' = level + 1 /\ score' = score /\ lives' = lives
         /\ state' = "idle"
         /\ paddle'.x = PaddleCentre
         /\ BallOverPaddle(ball', paddle')
         /\ FreshGrid(bricks')
    ELSE /\ level = 5
         /\ score' = 0 /\ lives' = 3 /\ level' = 1 /\ state' = "playing"

\* C7: from win the overlay button with level < 5 adds 1 to level, keeps
\* score and lives, installs a centred paddle, a stuck ball and a fully
\* alive grid and goes to idle; with level = 5 it restarts the run; level
\* stays in 1..5.
C7_LevelAdvance == [](level \in 1..5) /\ [][C7_Step]_vars

\* the last level has been entered through NEXT LEVEL
C7_Witness == lastOp = "overlay:win:nextLevel" /\ level = 5 /\ state = "idle"

\* ---------------------------------------------------------------- C8
\* C8: all bricks are dead exactly when state is win; so between ticks a
\* playing game has a brick alive.
C8_WinIffCleared == allDead(bricks) <=> state = "win"

\* a tick has cleared the grid
C8_Witness == state = "win" /\ lastOp = "loop" /\ allDead(bricks)

\* ---------------------------------------------------------------- C9
C9_State == lives \in 0..3 /\ (state = "gameover" <=> lives = 0)

C9_Step ==
  /\ lives' < lives => (lives' = lives - 1 /\ Frame /\ WillFall)
  /\ (WillFall /\ Frame) => lives' = lives - 1

\* C9: lives stays in 0..3, a ball loss takes exactly one life and nothing
\* else takes any, and state is gameover exactly when lives = 0.
C9_Lives == []C9_State /\ [][C9_Step]_vars

\* two balls have been lost, with two frame callbacks waiting
C9_Witness == lives = 1 /\ state = "playing" /\ ball.stuck /\ Len(raf) = 2

\* ---------------------------------------------------------------- C10
\* C10: at most one loop callback waits in requestAnimationFrame, and no
\* rendering frame runs more than one simulation tick.
C10_OneLoop == Len(raf) + Len(running) <= 1 /\ frameTicks <= 1

\* ---------------------------------------------------------------- C11
\* an input event: a key, mouse, touch or canvas-click listener
InputEvent ==
  KeyDown \/ KeyUp \/ MouseMove \/ TouchMove \/ CanvasClick \/ TouchStart

\* a launch trigger: the space key, a canvas click or a touchstart
LaunchTrigger == keyDown(" ") \/ CanvasClick \/ TouchStart

\* C11 as claimed: input events between ticks only record intent; they
\* change none of paddle, ball, bricks, score, lives and level.
C11_Original ==
  [][UNCHANGED <<paddle, ball, bricks, score, lives, level>> \/ ~InputEvent]_vars

C11_Step ==
  InputEvent =>
    /\ UNCHANGED <<state, bricks, score, lives, level>>
    /\ ball' = [ball EXCEPT !.x = ball'.x, !.stuck = ball'.stuck]
    /\ paddle' = [paddle EXCEPT !.x = paddle'.x]
    /\ state # "playing" => UNCHANGED <<paddle, ball>>
    /\ (KeyDown \/ KeyUp \/ CanvasClick \/ TouchStart) =>
         /\ paddle' = paddle /\ ball'.x = ball.x
         /\ ball'.stuck # ball.stuck => (LaunchTrigger /\ ball.stuck)
    /\ (MouseMove \/ TouchMove) =>
         /\ ball'.stuck = ball.stuck
         /\ 0 <= paddle'.x /\ paddle'.x <= Px(W) - paddle'.w
         /\ ball'.x = IF ball.stuck THEN paddle'.x + paddle'.w \div 2 ELSE ball.x

\* C11 (amended): input events change none of bricks, score, lives, level,
\* the ball's height and velocity; key presses of the movement keys only
\* record intent; but while playing a mouse or touch move sets paddle.x (and
\* the x of a stuck ball) at once, and a launch trigger clears ball.stuck
\* at once; in every other state input events change nothing of these.
C11_InputEffects == [][C11_Step]_vars

\* between the starting click and the first frame, the pointer has put the
\* paddle, and the stuck ball, at the left wall
C11_Witness ==
  /\ state = "playing" /\ lastOp = "overlay:idle" /\ keys = {}
  /\ paddle.x = 0 /\ ball.stuck /\ ball.x = paddle.w \div 2

\* ---------------------------------------------------------------- C19
C19_Step ==
  \/ UNCHANGED <<paddle, ball, bricks, score, lives, level>>
  \/ state = "playing"
  \/ OverlayClick

\* C19: while state is idle, win or gameover, frame callbacks and key,
\* mouse, touch and canvas-click events leave paddle, ball, bricks, score,
\* lives and level unchanged; only the overlay button changes them.
C19_NoAdvanceOutsidePlay == [][C19_Step]_vars

\* the callback requested by the winning tick has run and returned, with a
\* movement key held
C19_Witness ==
  state = "win" /\ lastOp = "loop" /\ raf = <<>> /\ running = <<>> /\ keys # {}

\* ---------------------------------------------------------------- C20
\* a step that runs a tick: a frame callback, or the loop() call of the
\* overlay button
TickStep == Frame \/ OverlayStart

C20_State ==
  ball.stuck =>
    /\ ball.x = paddle.x + paddle.w \div 2
    /\ ball.y = Px(PADDLE_Y - BALL_R - 2)

C20_Step ==
  /\ \/ ~ball.stuck
     \/ ~TickStep
     \/ /\ ball'.stuck /\ ball'.y = ball.y
        /\ ball'.vx = ball.vx /\ ball'.vy = ball.vy
        /\ UNCHANGED <<bricks, score, lives>>
  /\ (state = "playing" /\ LaunchTrigger) =>
       /\ ~ball'.stuck
       /\ ~ball.stuck => UNCHANGED <<paddle, ball, bricks, score, lives>>
  /\ (~ball.stuck /\ ball'.stuck) => (lives' = lives - 1 \/ GridReplaced)

\* C20: a stuck ball is centred over the paddle at its rest height; ticks
\* neither move it vertically nor run a collision; a launch trigger while
\* playing clears stuck and does nothing to a launched ball; stuck becomes
\* true again only by a life loss or a level initialisation.
C20_StuckBall == []C20_State /\ [][C20_Step]_vars

\* after a life loss the stuck ball has followed the paddle to the left wall
C20_Witness ==
  /\ state = "playing" /\ ball.stuck /\ lives = 2 /\ lastOp = "loop"
  /\ paddle.x = 0 /\ ball.x = paddle.w \div 2

\* ================================================ claims about one tick
\* (checked under TickSpec)
\* a tick that moves the ball
FlightTick == ticks' = ticks + 1

\* the ball as the brick loop of the tick meets it
BallAtBricks ==
  LET b1 == wallStep(ball)
  IN IF paddleHit(b1, paddle') THEN paddleBounce(b1, paddle') ELSE b1

\* the tick registers a paddle hit
PaddleHitNow == ~fellBelow(wallStep(ball)) /\ paddleHit(wallStep(ball), paddle')

\* brick k's rectangle is closer than the ball radius to the centre of b
Near(b, k) ==
  LET gx == Max(Max(k.x - b.x, b.x - (k.x + k.w)), 0)
      gy == Max(Max(k.y - b.y, b.y - (k.y + k.h)), 0)
  IN gx * gx + gy * gy < b.r * b.r

\* the bricks whose hp the step lowers
Hurt == {i \in 1..Len(bricks) : bricks'[i].hp < bricks[i].hp}

\* ---------------------------------------------------------------- C12
C12_Step ==
  FlightTick =>
    LET touched == {i \in 1..Len(bricks) : bricks[i].alive /\ Near(ball', bricks[i])}
    IN IF lives' < lives \/ touched = {}
       THEN bricks' = bricks
       ELSE \E i \in touched :
              /\ \A j \in touched : i <= j
              /\ bricks'[i].hp = bricks[i].hp - 1
              /\ \A j \in 1..Len(bricks) : j # i => bricks'[j] = bricks[j]

\* C12: a tick resolves at most one brick: the first alive brick in grid
\* order whose rectangle is closer than the ball radius to the ball centre
\* loses exactly one hp, and every other brick is unchanged.
C12_OneBrickPerTick == [][C12_Step]_vars

\* the ball touches two bricks; the first was resolved, the second never hit
C12_Witness ==
  /\ ~ball.stuck /\ state = "playing"
  /\ \E i, j \in 1..Len(bricks) :
       /\ i < j
       /\ Near(ball, bricks[i]) /\ bricks[i].hp < bricks[i].maxHp
       /\ Near(ball, bricks[j]) /\ bricks[j].hp = bricks[j].maxHp

\* ---------------------------------------------------------------- C13
C13_Step ==
  LET killed == {i \in 1..Len(bricks) : bricks[i].hp > 0 /\ bricks'[i].hp <= 0}
  IN IF killed = {}
     THEN score' = score
     ELSE \E i \in killed :
            score' = score + ROW_POINTS[bricks[i].row + 1]
                           + (IF bricks[i].bonus THEN BONUS_POINTS ELSE 0)

\* C13: score changes only in a step that drives a brick's hp to 0, and
\* then by exactly ROW_POINTS[row] plus BONUS_POINTS for a bonus brick; a
\* hit that only damages a brick and a tick without a hit leave it as it is.
C13_ScorePerBrick == [][C13_Step]_vars

\* in a level started afresh one brick of two hit points was destroyed and
\* paid, and another was only damaged
C13_Witness ==
  /\ lives = 3 /\ level = 3
  /\ \E i, j \in 1..Len(bricks) :
       /\ bricks[i].maxHp = 2 /\ bricks[i].hp = 0
       /\ bricks[j].maxHp = 2 /\ bricks[j].hp = 1
       /\ \A n \in 1..Len(bricks) : n # i => bricks[n].alive
       /\ score = (level - 1) * Len(bricks) * ROW_POINTS[1]
                  + ROW_POINTS[bricks[i].row + 1]
                  + (IF bricks[i].bonus THEN BONUS_POINTS ELSE 0)

\* ---------------------------------------------------------------- C14
C14_Step ==
  (FlightTick /\ lives' = lives /\ ~PaddleHitNow) =>
    /\ Abs(ball'.vx) = Abs(ball.vx)
    /\ Abs(ball'.vy) = Abs(ball.vy)

\* C14: a tick without a paddle hit or a life loss keeps |vx| and |vy|, and
\* so the speed; wall and brick bounces change signs only.
C14_SpeedKept == [][C14_Step]_vars

\* after a brick bounce the ball has come back from the top wall
C14_Witness ==
  /\ ~ball.stuck /\ ball.y = ball.r /\ ball.vy > 0
  /\ \E i \in 1..Len(bricks) : bricks[i].hp < bricks[i].maxHp

\* ---------------------------------------------------------------- C15
\* C15: after a ball loss that leaves lives > 0 the state is still playing,
\* the paddle is centred, the new ball is stuck over it and its speed is
\* BASE_SPEED: vx^2 + vy^2 = BASE_SPEED^2.
C15_BaseSpeed ==
  [][(lives' = lives - 1 /\ lives' > 0) =>
       /\ state' = "playing"
       /\ paddle'.x = PaddleCentre
       /\ BallOverPaddle(ball', paddle')
       /\ ball'.vx * ball'.vx + ball'.vy * ball'.vy
            = Px(BASE_SPEED) * Px(BASE_SPEED)]_vars

\* ---------------------------------------------------------------- C16
\* C16: in every tick that registers a paddle hit the ball centre is at most
\* half a paddle width from the paddle centre, |rel| <= 1.
C16_RelInRange ==
  [][(FlightTick /\ PaddleHitNow) =>
       Abs(ball'.x - (paddle'.x + paddle'.w \div 2)) <= paddle'.w \div 2]_vars

\* ---------------------------------------------------------------- C17
\* the ball was put on the paddle: its height is neither the advanced one
\* nor the one the top wall gives
Snapped == ball'.y # ball.y + ball.vy /\ ball'.y # ball.r

\* after the advance the ball's bottom edge is in the paddle's band and its
\* centre over the paddle, the radius included
InBand ==
  /\ ball.y + ball.vy + ball.r >= paddle'.y
  /\ ball.y + ball.vy + ball.r <= paddle'.y + paddle'.h
  /\ ball'.x >= paddle'.x - ball.r
  /\ ball'.x <= paddle'.x + paddle'.w + ball.r

C17_Step ==
  (FlightTick /\ lives' = lives) =>
    /\ Snapped => ball.vy > 0
    /\ (Snapped \/ (InBand /\ ball.vy > 0)) =>
         /\ ball'.vy < 0
         /\ ball'.y + ball'.r < paddle'.y
         /\ ~paddleHit(ball', paddle')

\* C17: a paddle hit is registered only for a ball moving down; after the
\* tick the ball moves up and lies wholly above the paddle, so the next
\* tick cannot register a paddle hit again.
C17_PaddleHitOnce == [][C17_Step]_vars

\* the ball has just been sent up from the paddle
C17_Witness ==
  /\ state = "playing" /\ ~ball.stuck /\ ticks > 0
  /\ ball.y = paddle.y - ball.r - Px(1) /\ ball.vy < 0

\* ---------------------------------------------------------------- C18
\* the side of the span [lo, lo + len] that v lies on: -1 before, 1 after,
\* 0 inside; and its distance from the span
Side(v, lo, len) == IF v < lo THEN -1 ELSE IF v > lo + len THEN 1 ELSE 0
Gap(v, lo, len) == IF v < lo THEN lo - v ELSE IF v > lo + len THEN v - (lo + len) ELSE 0

\* C18 as claimed: a tick that hits a brick inverts exactly one velocity
\* component, vx when overlapX < overlapY and vy otherwise, and keeps the
\* other, also when the brick is hit on consecutive ticks.
C18_Original ==
  [][(FlightTick /\ lives' = lives /\ Hurt # {}) =>
       LET m  == BallAtBricks
           k  == bricks[CHOOSE i \in Hurt : TRUE]
           overlapX == m.r - Gap(m.x, k.x, k.w)
           overlapY == m.r - Gap(m.y, k.y, k.h)
       IN IF overlapX < overlapY
          THEN ball'.vx = -m.vx /\ ball'.vy = m.vy
          ELSE ball'.vy = -m.vy /\ ball'.vx = m.vx]_vars

C18_Step ==
  (FlightTick /\ lives' = lives /\ Hurt # {}) =>
    LET m  == BallAtBricks
        k  == bricks[CHOOSE i \in Hurt : TRUE]
        overlapX == m.r - Gap(m.x, k.x, k.w)
        overlapY == m.r - Gap(m.y, k.y, k.h)
    IN IF overlapX < overlapY
       THEN /\ ball'.vy = m.vy
            /\ ball'.vx = IF Side(m.x, k.x, k.w) < 0 THEN -Abs(m.vx) ELSE Abs(m.vx)
       ELSE /\ ball'.vx = m.vx
            /\ ball'.vy = IF Side(m.y, k.y, k.h) < 0 THEN -Abs(m.vy) ELSE Abs(m.vy)

\* C18 (amended): a tick that hits a brick assigns exactly one velocity
\* component, vx when overlapX < overlapY and vy otherwise, and keeps the
\* other; the assigned component keeps its magnitude and points away from
\* the brick: negative when the ball centre lies before the brick on that
\* axis (dx < 0, dy < 0), positive otherwise.  It is inverted only when it
\* pointed the other way before.
C18_ReflectAway == [][C18_Step]_vars

\* the ball is leaving, to the left, a brick of two hit points that it hit
\* on its left side until it was destroyed
C18_Witness ==
  /\ ~ball.stuck /\ ball.vx < 0
  /\ \E i \in 1..Len(bricks) :
       /\ bricks[i].maxHp = 2 /\ bricks[i].hp = 0
       /\ Near(ball, bricks[i])
       /\ Side(ball.x, bricks[i].x, bricks[i].w) < 0
       /\ Side(ball.y, bricks[i].y, bricks[i].h) = 0

====
